---- MODULE Spec2Model ----
(***************************************************************************)
(* A model of m00sic's greedy melody builder (src/m00sic/optim.py) and of  *)
(* the helpers it calls (src/m00sic/util.py, src/m00sic/core.py).          *)
(*                                                                         *)
(* Two specifications share the variables:                                 *)
(*   Spec       one run of local_search: key, progression, seed, then one  *)
(*              appended note per loop iteration;                          *)
(*   ScoreSpec  one call of calculate_score_of_new_note on inputs drawn    *)
(*              from the playable range.                                   *)
(*                                                                         *)
(* m00sic/constants.py (KEYS, NOTES_FOR_KEY, TONIC_NOTE_FOR_KEY,           *)
(* STEPS_FOR_CHORD and the reward weights) is not among the sources; its   *)
(* definitions below follow the written specification and core.py.         *)
(* Names optim.py misspells (notes_per_key, utils.) are read as the        *)
(* constants.NOTES_FOR_KEY and util. functions they stand for.             *)
(***************************************************************************)
EXTENDS Integers, Sequences, FiniteSets

VARIABLES
    pc,                \* position in local_search / in the scorer call
    desired_length,    \* optim.py:87
    key,               \* optim.py:82
    chord_progression, \* optim.py:85
    best_note_seq,     \* optim.py:88, the NoteSequence's notes
    i,                 \* optim.py:93, the loop index
    step_scores,       \* history variable: score of each selected note, in order
    choices,           \* history variable: what the latest random.choice could return
    previous_notes,    \* scorer argument (ScoreSpec)
    new_note,          \* scorer argument (ScoreSpec)
    score,             \* scorer outcome (ScoreSpec)
    current_note,      \* the Note object at hand (NoteSpec)
    raised             \* the exception that left the running call, if any

vars == <<pc, desired_length, key, chord_progression, best_note_seq, i,
          step_scores, choices, previous_notes, new_note, score,
                   current_note, raised>>

---------------------------------------------------------------------------
(* Bounds of the model.                                                    *)

\* desired_length is drawn from -1 .. MaxLength
MaxLength == 4

\* ScoreSpec: how many earlier occurrences of the candidate a history holds
MaxRepeat == 1

---------------------------------------------------------------------------
(* core.py: the playable range and the interval patterns.                  *)

C0_MIDI_NUM == 12
LOWEST_PIANO_MIDI_NUM == 21
HIGHEST_PIANO_MIDI_NUM == 108
NOTES_PER_OCTAVE == 12

PianoRange == LOWEST_PIANO_MIDI_NUM .. HIGHEST_PIANO_MIDI_NUM

_get_rank(midi_num) == (midi_num - C0_MIDI_NUM) % NOTES_PER_OCTAVE

_to_midi_num(rank, octave) == C0_MIDI_NUM + NOTES_PER_OCTAVE * octave + rank

Range(s) == {s[x] : x \in DOMAIN s}

Last(s) == s[Len(s)]

\* sorted(), for a list of distinct pitches
sorted(s) ==
    SelectSeq([p \in 1 .. (HIGHEST_PIANO_MIDI_NUM + NOTES_PER_OCTAVE) |-> p],
              LAMBDA p : p \in Range(s))

---------------------------------------------------------------------------
(* constants.py, not among the sources.                                    *)

\* a key is <<rank of the tonic, quality>>; the model keeps one key of each
\* quality, C major and C minor: any other key is a transposition of one of them
KEYS == {<<0, "major">>, <<0, "minor">>}

NoKey == <<0, "none">>

\* a key whose list of notes is empty: the specification calls it a violation
\* of the key model's invariants, to be failed on when met
EmptyKey == <<0, "empty">>

MajorKey_intervals == {0, 2, 4, 5, 7, 9, 11}
MinorKey_intervals == {0, 2, 3, 5, 7, 8, 10}

KeyIntervals(k) ==
    IF k[2] = "major" THEN MajorKey_intervals ELSE MinorKey_intervals

\* p is one of NOTES_FOR_KEY[k]
InKey(k, p) ==
    /\ p \in PianoRange
    /\ (_get_rank(p) - k[1]) % NOTES_PER_OCTAVE \in KeyIntervals(k)

\* the members of NOTES_FOR_KEY[k], as a set
NoteSet(k) == {p \in PianoRange : InKey(k, p)}

\* the dict's items: each key with its members in increasing order
NOTES_FOR_KEY_items ==
    {<<k, SelectSeq([p \in 1 .. HIGHEST_PIANO_MIDI_NUM |-> p], LAMBDA p : InKey(k, p))>> :
        k \in KEYS}
    \cup {<<EmptyKey, <<>>>>}

NOTES_FOR_KEY(k) == (CHOOSE item \in NOTES_FOR_KEY_items : item[1] = k)[2]

DefaultOctave == 4

TONIC_NOTE_FOR_KEY(k) == _to_midi_num(k[1], DefaultOctave)

STEPS_FOR_CHORD(chord) == IF chord = "major_triad" THEN <<0, 4, 7>> ELSE <<>>

NOTE_IN_KEY_REWARD == 1
NOTE_IN_CHORDS_REWARD == 1
CONSONANT_INTERVAL_REWARD == 1
SUPER_CONSONANT_INTERVAL_REWARD == 2
DISSONANT_INTERVAL_REWARD == 0 - 1
CENTRICITY_FACTOR == 1

---------------------------------------------------------------------------
(* util.py                                                                 *)

OFFSET_TO_INT(offset) ==
    CASE offset = "I" -> 0 [] offset = "II" -> 1 [] offset = "III" -> 2
      [] offset = "IV" -> 3 [] offset = "V" -> 4 [] offset = "VI" -> 5

\* list.index: the first position holding x (1-based here)
index(s, x) == CHOOSE n \in DOMAIN s : s[n] = x /\ \A m \in 1 .. (n - 1) : s[m] # x

get_starting_note(k, offset) ==
    LET notes == NOTES_FOR_KEY(k)
        tonic_idx == index(notes, TONIC_NOTE_FOR_KEY(k))
    IN  notes[tonic_idx + OFFSET_TO_INT(offset)]

get_chord(k, starting_note, chord) ==
    LET steps == STEPS_FOR_CHORD(chord)
    IN  [n \in DOMAIN steps |-> starting_note + steps[n]]

get_chord_first_inversion(k, starting_note, chord) ==
    LET notes == get_chord(k, starting_note, chord)
    IN  sorted(SubSeq(notes, 2, Len(notes)) \o SubSeq(notes, 1, 1))

get_chord_second_inversion(k, starting_note, chord) ==
    LET notes == get_chord(k, starting_note, chord)
    IN  sorted(SubSeq(notes, Len(notes), Len(notes)) \o SubSeq(notes, 1, Len(notes) - 1))

build_chord_progression(k) ==
    << get_chord(k, get_starting_note(k, "I"), "major_triad"),
       get_chord_second_inversion(k, get_starting_note(k, "V"), "major_triad"),
       get_chord_first_inversion(k, get_starting_note(k, "VI"), "major_triad"),
       get_chord_second_inversion(k, get_starting_note(k, "IV"), "major_triad") >>

OctaveShifts == (0 - 7) .. 7

all_octaves(note) ==
    {x * 12 + note : x \in {y \in OctaveShifts : y * 12 + note >= 21 /\ y * 12 + note <= 100}}

RECURSIVE extract_pitches(_)
extract_pitches(notes) ==
    IF notes = <<>> THEN <<>>
    ELSE Append(extract_pitches(SubSeq(notes, 1, Len(notes) - 1)), Last(notes).pitch)

---------------------------------------------------------------------------
(* optim.py: the scorer.  Each term of calculate_score_of_new_note is the  *)
(* amount one of its if-statements adds to score.                          *)

flatten(chords) == UNION {Range(chords[c]) : c \in DOMAIN chords}

count(s, x) == Cardinality({n \in DOMAIN s : s[n] = x})

key_term(k, generated_note) ==
    IF InKey(k, generated_note)
    THEN NOTE_IN_KEY_REWARD ELSE 0 - NOTE_IN_KEY_REWARD

chord_term(chords, generated_note) ==
    IF generated_note \in flatten(chords) THEN NOTE_IN_CHORDS_REWARD ELSE 0

unison_term(last, generated_note) ==
    IF generated_note \in all_octaves(last) THEN CONSONANT_INTERVAL_REWARD ELSE 0

fourth_term(last, generated_note) ==
    IF generated_note \in all_octaves(last + 5) THEN CONSONANT_INTERVAL_REWARD ELSE 0

fifth_term(last, generated_note) ==
    IF generated_note \in all_octaves(last + 7)
    THEN SUPER_CONSONANT_INTERVAL_REWARD ELSE 0

minor_second_term(last, generated_note) ==
    IF generated_note \in all_octaves(last + 1) THEN DISSONANT_INTERVAL_REWARD ELSE 0

centricity_term(notes, generated_note) == count(notes, generated_note) * CENTRICITY_FACTOR

score_sum(k, chords, notes, generated_note) ==
    key_term(k, generated_note)
    + chord_term(chords, generated_note)
    + unison_term(Last(notes), generated_note)
    + fourth_term(Last(notes), generated_note)
    + fifth_term(Last(notes), generated_note)
    + minor_second_term(Last(notes), generated_note)
    + centricity_term(notes, generated_note)

Returned(v) == [exc |-> "none", val |-> v]
Raised(e) == [exc |-> e, val |-> 0]
NoScore == [exc |-> "pending", val |-> 0]

\* Note.__add__ (core.py) refuses a sum outside the playable range
InPianoRange(n) == LOWEST_PIANO_MIDI_NUM <= n /\ n <= HIGHEST_PIANO_MIDI_NUM

\* a scorer that shifts with Note.__add__, which refuses a sum out of range
calculate_score_with_note_shift(k, chords, notes, generated_note) ==
    IF notes = <<>> THEN Raised("IndexError")
    ELSE IF \E semitones \in {1, 5, 7} : ~InPianoRange(Last(notes) + semitones)
         THEN Raised("ValueError")
         ELSE Returned(score_sum(k, chords, notes, generated_note))

\* previous_notes[-1] raises IndexError on an empty list; nothing else in the
\* body can raise for integer pitches and a key of KEYS.
calculate_score_of_new_note(k, chords, notes, generated_note) ==
    IF notes = <<>> THEN Raised("IndexError")
    ELSE Returned(score_sum(k, chords, notes, generated_note))

RECURSIVE value_fn_from(_, _, _, _)
value_fn_from(k, chords, pitches, end) ==
    IF end >= Len(pitches) THEN 0
    ELSE calculate_score_of_new_note(k, chords, SubSeq(pitches, 1, end), pitches[end + 1]).val
         + value_fn_from(k, chords, pitches, end + 1)

\* a sum that starts one position late
value_fn_from_third(k, chords, note_sequence) ==
    value_fn_from(k, chords, extract_pitches(note_sequence), 2)

value_fn(k, chords, note_sequence) ==
    value_fn_from(k, chords, extract_pitches(note_sequence), 1)

---------------------------------------------------------------------------
(* optim.py: local_search.  A random.choice is the set of its outcomes.    *)

get_random_key == KEYS

random_choice(list) == Range(list)

\* a seed drawn from the whole keyboard
get_random_note_from_piano(k) == PianoRange

get_random_note_from_key(k) == random_choice(NOTES_FOR_KEY(k))

Max(S) == CHOOSE m \in S : \A x \in S : x <= m

Velocity == 80

\* an add that overwrites the latest note
notes_overwrite(notes, pitch, start_time, end_time, velocity) ==
    LET note == [pitch |-> pitch, start_time |-> start_time,
                 end_time |-> end_time, velocity |-> velocity]
    IN  IF notes = <<>> THEN <<note>> ELSE [notes EXCEPT ![Len(notes)] = note]

\* an add that keeps the seed's times, start 0.0 and end 1.0, for every note
notes_add_at_seed_time(notes, pitch, start_time, end_time, velocity) ==
    Append(notes, [pitch |-> pitch, start_time |-> 0,
                   end_time |-> 1, velocity |-> velocity])

notes_add(notes, pitch, start_time, end_time, velocity) ==
    Append(notes, [pitch |-> pitch, start_time |-> start_time,
                   end_time |-> end_time, velocity |-> velocity])

\* the candidates of one greedy step, in the order the loop visits them
Candidates(k) == NOTES_FOR_KEY(k)

\* new_note_scores, the dict of score : list of notes that the inner loop
\* fills, as its keys and the list it holds at a key
new_note_scores_keys(k, chords, pitches) ==
    {calculate_score_of_new_note(k, chords, pitches, c).val : c \in Range(Candidates(k))}

new_note_scores_at(k, chords, pitches, s) ==
    SelectSeq(Candidates(k),
              LAMBDA c : calculate_score_of_new_note(k, chords, pitches, c).val = s)

\* min in place of max
worst_score(score_keys) == CHOOSE m \in score_keys : \A x \in score_keys : m <= x

\* max(new_note_scores.keys())
best_score(score_keys) == Max(score_keys)

\* a range that runs one iteration too far
in_range_inclusive(idx, stop) == idx <= stop

\* range(1, desired_length) still holds idx
in_range(idx, stop) == idx < stop

Lengths == (0 - 1) .. MaxLength

\* no Note object has been built
NoNote == [name |-> <<"", 0>>, midi_num |-> 0]

Init ==
    /\ pc = "start"
    /\ desired_length \in Lengths
    /\ key = NoKey
    /\ chord_progression = <<>>
    /\ best_note_seq = <<>>
    /\ i = 0
    /\ step_scores = <<>>
    /\ choices = {}
    /\ previous_notes = <<>>
    /\ new_note = 0
    /\ score = NoScore
    /\ current_note = NoNote
    /\ raised = "none"

\* optim.py:82-85
PickKey ==
    /\ pc = "start"
    /\ \E k \in get_random_key :
          /\ key' = k
          /\ chord_progression' = build_chord_progression(k)
    /\ pc' = "seed"
    /\ UNCHANGED <<desired_length, best_note_seq, i, step_scores, choices,
                   previous_notes, new_note, score,
                   current_note, raised>>

\* optim.py:87-91
Seed ==
    /\ pc = "seed"
    /\ LET seeds == get_random_note_from_key(key)
       IN  /\ \E p \in seeds : best_note_seq' = notes_add(<<>>, p, 0, 1, Velocity)
           /\ choices' = seeds
    /\ i' = 1
    /\ pc' = "loop"
    /\ UNCHANGED <<desired_length, key, chord_progression, step_scores,
                   previous_notes, new_note, score,
                   current_note, raised>>

\* optim.py:93-110, one iteration
Step ==
    /\ pc = "loop"
    /\ in_range(i, desired_length)
    /\ \E pitches \in {extract_pitches(best_note_seq)} :
       \E score_keys \in {new_note_scores_keys(key, chord_progression, pitches)} :
       \E best \in {best_score(score_keys)} :
       \E tied \in {new_note_scores_at(key, chord_progression, pitches, best)} :
       \E selected_note \in random_choice(tied) :
          /\ best_note_seq' = notes_add(best_note_seq, selected_note,
                                        i, i + 1, Velocity)
          /\ step_scores' = Append(step_scores, best)
          /\ choices' = random_choice(tied)
    /\ i' = i + 1
    /\ UNCHANGED <<pc, desired_length, key, chord_progression,
                   previous_notes, new_note, score,
                   current_note, raised>>

\* optim.py:93 exhausted, 112
Return ==
    /\ pc = "loop"
    /\ ~in_range(i, desired_length)
    /\ pc' = "done"
    /\ UNCHANGED <<desired_length, key, chord_progression, best_note_seq, i,
                   step_scores, choices, previous_notes, new_note, score,
                   current_note, raised>>

Next == PickKey \/ Seed \/ Step \/ Return

Spec == Init /\ [][Next]_vars

\* local_search is one synchronous call: it keeps running until it returns
FairSpec == Spec /\ WF_vars(Next)

---------------------------------------------------------------------------
(* A run of local_search whose constants.KEYS also holds EmptyKey.         *)

\* list.index(x) raises ValueError when x is not in the list (util.py:30)
index_raises(s, x) == x \notin Range(s)

\* a handler that swallows the exception and returns the sequence as it is
caught_and_returned(exc) == [pc |-> "done", raised |-> "none"]

\* local_search has no handler: an exception raised below it leaves the call
uncaught(exc) == [pc |-> "failed", raised |-> exc]

KEYS_or_empty == KEYS \cup {EmptyKey}

\* optim.py:82-85; build_chord_progression starts with get_starting_note(key, "I"),
\* whose notes.index(tonic) is the first statement to touch the list of notes
PickKeyOrFail ==
    /\ pc = "start"
    /\ \E k \in KEYS_or_empty :
          /\ key' = k
          /\ IF index_raises(NOTES_FOR_KEY(k), TONIC_NOTE_FOR_KEY(k))
             THEN /\ pc' = uncaught("ValueError").pc
                  /\ raised' = uncaught("ValueError").raised
                  /\ chord_progression' = chord_progression
             ELSE /\ pc' = "seed"
                  /\ raised' = raised
                  /\ chord_progression' = build_chord_progression(k)
    /\ UNCHANGED <<desired_length, best_note_seq, i, step_scores, choices,
                   previous_notes, new_note, score, current_note>>

EmptyKeyNext == PickKeyOrFail \/ Seed \/ Step \/ Return

EmptyKeySpec == Init /\ [][EmptyKeyNext]_vars

---------------------------------------------------------------------------
(* core.py, class Note: objects built from a name, from a MIDI number, or  *)
(* from a Note and an integer.                                             *)

\* operands of + and - are drawn from -MaxShift .. MaxShift
MaxShift == 12
\* names end in the digits of 0 .. MaxDigits, or in no digit at all
MaxDigits == 10

LOWEST_PIANO_OCTAVE == 0
HIGHEST_PIANO_OCTAVE == 8
\* the MIDI numbers, 0 .. 127
HIGHEST_MIDI_NUM == 127

PITCH_CLASSES ==
    << <<"C">>, <<"C#", "Db">>, <<"D">>, <<"D#", "Eb">>, <<"E">>, <<"F">>,
       <<"F#", "Gb">>, <<"G">>, <<"G#", "Ab">>, <<"A">>, <<"A#", "Bb">>, <<"B">> >>

VALID_PITCH_CLASSES == UNION {Range(PITCH_CLASSES[n]) : n \in DOMAIN PITCH_CLASSES}

\* enumerate() counts from 0
_PITCH_CLASS_TO_RANK(pitch_class) ==
    (CHOOSE n \in DOMAIN PITCH_CLASSES : pitch_class \in Range(PITCH_CLASSES[n])) - 1

_get_octave(midi_num) == (midi_num - C0_MIDI_NUM) \div NOTES_PER_OCTAVE

\* a name is <<the text before the trailing digits, the number the digits spell>>;
\* NoDigits stands for a name that ends in no digit
NoDigits == 0 - 1

_to_note_name(midi_num) ==
    <<PITCH_CLASSES[_get_rank(midi_num) + 1][1], _get_octave(midi_num)>>

\* Note.__init__: the octave and the pitch class are asserted, the MIDI number
\* that follows from them is not
Note_init(name) ==
    IF name[2] = NoDigits THEN Raised("AssertionError")
    ELSE IF ~(LOWEST_PIANO_OCTAVE <= name[2] /\ name[2] <= HIGHEST_PIANO_OCTAVE)
         THEN Raised("AssertionError")
    ELSE IF name[1] \notin VALID_PITCH_CLASSES THEN Raised("AssertionError")
    ELSE Returned([name |-> name,
                   midi_num |-> _to_midi_num(_PITCH_CLASS_TO_RANK(name[1]), name[2])])

from_midi_num(midi_num) ==
    IF ~InPianoRange(midi_num) THEN Raised("AssertionError")
    ELSE Note_init(_to_note_name(midi_num))

\* an operand is an integer or something else
IntOperand(k) == [kind |-> "int", val |-> k]
OtherOperand == [kind |-> "str", val |-> 0]

Note_add(self, other) ==
    IF other.kind # "int" THEN Raised("TypeError")
    ELSE LET new_midi_num == self.midi_num + other.val
         IN  IF ~InPianoRange(new_midi_num) THEN Raised("ValueError")
             ELSE from_midi_num(new_midi_num)

Note_sub(self, other) ==
    IF other.kind # "int" THEN Raised("TypeError")
    ELSE Note_add(self, IntOperand(0 - other.val))

Names == (VALID_PITCH_CLASSES \cup {"H", "C-"}) \X (NoDigits .. MaxDigits)
MidiNums == 0 .. HIGHEST_MIDI_NUM
Operands == {IntOperand(k) : k \in (0 - MaxShift) .. MaxShift} \cup {OtherOperand}

NoteInit ==
    /\ pc = "note"
    /\ current_note = NoNote
    /\ raised = "none"
    /\ desired_length = 0
    /\ key = NoKey
    /\ chord_progression = <<>>
    /\ best_note_seq = <<>>
    /\ i = 0
    /\ step_scores = <<>>
    /\ choices = {}
    /\ previous_notes = <<>>
    /\ new_note = 0
    /\ score = NoScore

\* the call's outcome: a new Note at hand, or the exception and the Note as it was
Outcome(result) ==
    /\ current_note' = IF result.exc = "none" THEN result.val ELSE current_note
    /\ raised' = result.exc
    /\ UNCHANGED <<pc, desired_length, key, chord_progression, best_note_seq, i,
                   step_scores, choices, previous_notes, new_note, score>>

NewNote == pc = "note" /\ \E name \in Names : Outcome(Note_init(name))

FromMidiNum == pc = "note" /\ \E midi_num \in MidiNums : Outcome(from_midi_num(midi_num))

AddToNote ==
    /\ pc = "note"
    /\ current_note # NoNote
    /\ \E other \in Operands : Outcome(Note_add(current_note, other))

SubFromNote ==
    /\ pc = "note"
    /\ current_note # NoNote
    /\ \E other \in Operands : Outcome(Note_sub(current_note, other))

NoteNext == NewNote \/ FromMidiNum \/ AddToNote \/ SubFromNote

NoteSpec == NoteInit /\ [][NoteNext]_vars

---------------------------------------------------------------------------
(* One call of the scorer on drawn inputs.                                 *)

Repeat(x, n) == [m \in 1 .. n |-> x]

Histories(candidate) ==
    {<<>>} \cup {Repeat(candidate, n) \o <<last>> :
                    n \in 0 .. MaxRepeat, last \in PianoRange}

ScoreInit ==
    /\ pc = "call"
    /\ key \in KEYS
    /\ chord_progression = build_chord_progression(key)
    /\ new_note \in PianoRange
    /\ previous_notes \in Histories(new_note)
    /\ score = NoScore
    /\ desired_length = 0
    /\ best_note_seq = <<>>
    /\ i = 0
    /\ step_scores = <<>>
    /\ choices = {}
    /\ current_note = NoNote
    /\ raised = "none"

Evaluate ==
    /\ pc = "call"
    /\ score' = calculate_score_of_new_note(key, chord_progression,
                                            previous_notes, new_note)
    /\ pc' = "returned"
    /\ UNCHANGED <<desired_length, key, chord_progression, best_note_seq, i,
                   step_scores, choices, previous_notes, new_note,
                   current_note, raised>>

ScoreNext == Evaluate

ScoreSpec == ScoreInit /\ [][ScoreNext]_vars

---------------------------------------------------------------------------
(* Properties.                                                             *)

RECURSIVE Sum(_)
Sum(s) == IF s = <<>> THEN 0 ELSE s[1] + Sum(Tail(s))

pitches_so_far == extract_pitches(best_note_seq)

\* the history the latest greedy step scored against
history_before_last == SubSeq(pitches_so_far, 1, Len(pitches_so_far) - 1)

C2_AllPitchesInKey ==
    \A n \in DOMAIN best_note_seq : best_note_seq[n].pitch \in NoteSet(key)

C2_Witness ==
    /\ pc = "loop"
    /\ Len(best_note_seq) >= 3
    /\ best_note_seq[1].pitch # best_note_seq[3].pitch

\* C3: at every greedy step the pitches that may be appended are exactly the
\* candidates whose score against the current history is the maximum over all
\* candidates; the appended pitch is one of them.
C3_AppendedFromArgMax ==
    (pc = "loop" /\ Len(best_note_seq) >= 2) =>
        LET ScoreOf(c) == calculate_score_of_new_note(key, chord_progression,
                                                      history_before_last, c).val
            top == Max({ScoreOf(d) : d \in NoteSet(key)})
            ArgMax == {c \in NoteSet(key) : ScoreOf(c) = top}
        IN  /\ choices = ArgMax
            /\ Last(pitches_so_far) \in choices

C3_Witness ==
    /\ pc = "loop"
    /\ Len(best_note_seq) >= 2
    /\ Cardinality(choices) >= 2
    /\ Cardinality(choices) < Cardinality(NoteSet(key))

\* C4: a step of the build loop only appends: the sequence after the step is
\* the sequence before it followed by one new note, and the key and the
\* progression are unchanged.
C4_LoopOnlyAppends ==
    [][pc = "loop" =>
          /\ \/ best_note_seq' = best_note_seq
             \/ /\ Len(best_note_seq') = Len(best_note_seq) + 1
                /\ SubSeq(best_note_seq', 1, Len(best_note_seq)) = best_note_seq
          /\ key' = key
          /\ chord_progression' = chord_progression]_vars

C4_Witness ==
    /\ pc = "done"
    /\ Len(best_note_seq) >= 3
    /\ key \in KEYS

\* C5: for a completed sequence, value_fn equals the sum of the scores of the
\* selected candidates as computed at each step of the construction.
C5_ValueIsSumOfStepScores ==
    pc = "done" => value_fn(key, chord_progression, best_note_seq) = Sum(step_scores)

C5_Witness ==
    /\ pc = "done"
    /\ Len(step_scores) >= 3
    /\ \E m, n \in DOMAIN step_scores : step_scores[m] # step_scores[n]

C6_ChordTermByPitchClass ==
    (pc = "returned" /\ score.exc = "none") =>
        chord_term(chord_progression, new_note) =
            IF \E p \in flatten(chord_progression) :
                   p % NOTES_PER_OCTAVE = new_note % NOTES_PER_OCTAVE
            THEN NOTE_IN_CHORDS_REWARD ELSE 0

\* C7: for every last pitch and every candidate of the playable range, the
\* unison, fourth, fifth and minor-second terms fire exactly when
\* candidate - last - k is a multiple of 12, for k = 0, 5, 7, 1.
C7_IntervalTermsInEveryOctave ==
    (pc = "returned" /\ previous_notes # <<>>) =>
        LET last == Last(previous_notes)
            SameClassShifted(from, candidate, k) ==
                (candidate - from - k) % NOTES_PER_OCTAVE = 0
        IN  /\ unison_term(last, new_note) # 0 <=> SameClassShifted(last, new_note, 0)
            /\ fourth_term(last, new_note) # 0 <=> SameClassShifted(last, new_note, 5)
            /\ fifth_term(last, new_note) # 0 <=> SameClassShifted(last, new_note, 7)
            /\ minor_second_term(last, new_note) # 0 <=> SameClassShifted(last, new_note, 1)

C12_NotesWithinPlayableRange ==
    current_note # NoNote => current_note.midi_num \in PianoRange

\* C13: in every state of a run the sequence is monophonic: the note at
\* position n, counted from 0, sounds from n to n + 1 with the fixed velocity,
\* start times strictly increase with the position and no two notes overlap.
C13_Monophonic ==
    /\ \A n \in DOMAIN best_note_seq :
          /\ best_note_seq[n].start_time = n - 1
          /\ best_note_seq[n].end_time = n
          /\ best_note_seq[n].velocity = Velocity
    /\ \A m, n \in DOMAIN best_note_seq :
          m < n => /\ best_note_seq[m].start_time < best_note_seq[n].start_time
                   /\ best_note_seq[m].end_time <= best_note_seq[n].start_time

C13_Witness ==
    /\ pc = "done"
    /\ Len(best_note_seq) = MaxLength
    /\ best_note_seq[MaxLength].start_time = MaxLength - 1

====
